---- MODULE Spec2Model ----
(***************************************************************************)
(* Model of the uniplex-mcp-manage translation layer: the dispatch table   *)
(* (tools/index.ts), the per-operation handlers (tools/*.ts) and the       *)
(* transport (ApiClient in api-client.ts).                                  *)
(*                                                                         *)
(* JavaScript values are records [t, s, o]: t is the type tag, s the text  *)
(* of a primitive (the decimal text of a number, the characters of a       *)
(* string), o the own properties of an object.  A payload put on the wire  *)
(* is represented by the JSON value its text denotes.                      *)
(*                                                                         *)
(* env holds the configuration constants main() reads from the            *)
(* environment, api the client built from them, registry the exports of    *)
(* tools/index.ts.  pc and d                                               *)
(* are the position and the locals of one invocation of handleToolCall;    *)
(* pc2 and d2 those of a second invocation that may run while the first is *)
(* suspended at `await fetch`.  server is the state of main(): how far it  *)
(* got, the arguments of the call-tool request being handled and the reply *)
(* its handler returned.                                                   *)
(***************************************************************************)
EXTENDS Integers, Sequences, FiniteSets, TLC

VARIABLES env, api, registry, pc, d, served, pc2, d2, server

vars == <<env, api, registry, pc, d, served, pc2, d2, server>>

---------------------------------------------------------------------------
(* Bounds of the model *)

MaxDispatches == 2

MaxQuantity == 2

---------------------------------------------------------------------------
(* JavaScript values *)

NoProps == <<>>

undefined == [t |-> "undefined", s |-> "undefined", o |-> NoProps]

null == [t |-> "null", s |-> "null", o |-> NoProps]

Str(x) == [t |-> "string", s |-> x, o |-> NoProps]

Digit(n) ==
  CASE n = 0 -> "0" [] n = 1 -> "1" [] n = 2 -> "2" [] n = 3 -> "3" [] n = 4 -> "4"
    [] n = 5 -> "5" [] n = 6 -> "6" [] n = 7 -> "7" [] n = 8 -> "8" [] n = 9 -> "9"

RECURSIVE NatToStr(_)
NatToStr(n) == IF n < 10 THEN Digit(n) ELSE NatToStr(n \div 10) \o Digit(n % 10)

Num(n) == [t |-> "number", s |-> NatToStr(n), o |-> NoProps]

Bool(b) == [t |-> "boolean", s |-> IF b THEN "true" ELSE "false", o |-> NoProps]

\* an array of strings, s holds its elements joined by ","
Arr(joined) == [t |-> "array", s |-> joined, o |-> NoProps]

Obj(props) == [t |-> "object", s |-> "", o |-> props]

EmptyObject == Obj(NoProps)

\* ToBoolean: the truthiness tested by `x ? a : b`, `if (x)` and `x || y`
Truthy(v) ==
  CASE v.t = "undefined" -> FALSE
    [] v.t = "null" -> FALSE
    [] v.t = "string" -> v.s # ""
    [] v.t = "number" -> v.s # "0"
    [] v.t = "boolean" -> v.s = "true"
    [] OTHER -> TRUE

\* ToString: what a template literal `${x}` and String(x) produce
JsString(v) ==
  CASE v.t = "object" -> "[object Object]"
    [] OTHER -> v.s

Prop_EmptyString(args, k) == IF k \in DOMAIN args THEN args[k] ELSE Str("")

\* destructuring `const { k } = args`: a missing property reads as undefined
Prop(args, k) == IF k \in DOMAIN args THEN args[k] ELSE undefined

Rest_KeepAll(args, k) == args

\* `const { k, ...rest } = args`: the own properties of args other than k
Rest(args, k) == [x \in DOMAIN args \ {k} |-> args[x]]

\* `if (v !== undefined) body.k = v`
SetIfDefined(body, k, v) == IF v # undefined THEN (k :> v) @@ body ELSE body

JSONstringify_Nulls(v) ==
  IF v.t = "object"
    THEN Obj([k \in DOMAIN v.o |-> IF v.o[k] = undefined THEN null ELSE v.o[k]])
    ELSE v

\* JSON.stringify, as the JSON value the produced text denotes: a property
\* whose value is undefined is left out of the text
JSONstringify(v) ==
  IF v.t = "object"
    THEN Obj([k \in {x \in DOMAIN v.o : v.o[x] # undefined} |-> v.o[k]])
    ELSE v

---------------------------------------------------------------------------
(* URLSearchParams *)

\* application/x-www-form-urlencoded serialisation of the texts the model uses
UrlEncode(x) ==
  CASE x = "a b" -> "a+b"
    [] x = "[object Object]" -> "%5Bobject+Object%5D"
    [] x = "r,w" -> "r%2Cw"
    [] OTHER -> x

\* URLSearchParams.toString() of a list of <<key, text>> entries
RECURSIVE SearchParamsToString(_)
SearchParamsToString(entries) ==
  IF entries = <<>> THEN ""
  ELSE LET e == Head(entries)
           rest == SearchParamsToString(Tail(entries))
       IN UrlEncode(e[1]) \o "=" \o UrlEncode(e[2]) \o (IF rest = "" THEN "" ELSE "&" \o rest)

\* `if (v) params.set(k, String(v))` (tools/attestations.ts)
SetIfTruthy(entries, k, v) == IF Truthy(v) THEN Append(entries, <<k, JsString(v)>>) ELSE entries

---------------------------------------------------------------------------
(* ApiClient (api-client.ts) *)

BaseUrlConfig == "https://uniplex.ai/"

ApiKeyConfig == "uni_test_xxx"

\* config.baseUrl.replace(/\/$/, '') for the base URLs the model configures
StripTrailingSlash(url) ==
  CASE url = "https://uniplex.ai/" -> "https://uniplex.ai"
    [] url = "http://localhost:3000/" -> "http://localhost:3000"
    [] url = "http://localhost:3000//" -> "http://localhost:3000/"
    [] OTHER -> url

ApiClient(config) ==
  [baseUrl |-> StripTrailingSlash(config.baseUrl), apiKey |-> config.apiKey]

\* the optional `params` argument: absent, or the entries of the object literal
NoParams == [has |-> FALSE, e |-> <<>>]

Params(entries) == [has |-> TRUE, e |-> entries]

RECURSIVE DefinedEntries_KeepUndefined(_)
DefinedEntries_KeepUndefined(entries) ==
  IF entries = <<>> THEN <<>>
  ELSE <<<<Head(entries)[1], JsString(Head(entries)[2])>>>>
         \o DefinedEntries_KeepUndefined(Tail(entries))

\* the loop over Object.entries(options.params): undefined values are skipped
RECURSIVE DefinedEntries(_)
DefinedEntries(entries) ==
  IF entries = <<>> THEN <<>>
  ELSE LET e == Head(entries)
       IN (IF e[2] # undefined THEN <<<<e[1], JsString(e[2])>>>> ELSE <<>>)
            \o DefinedEntries(Tail(entries))

request_ContentTypeWithBody(client, method, path, params, body) ==
  LET searchParams == IF params.has THEN DefinedEntries(params.e) ELSE <<>>
      queryString == SearchParamsToString(searchParams)
      url == client.baseUrl \o path \o (IF queryString # "" THEN "?" \o queryString ELSE "")
  IN [url |-> url,
      method |-> method,
      path |-> path,
      params |-> params,
      pathQuery |-> <<>>,
      query |-> searchParams,
      headers |-> [Authorization |-> "Bearer " \o client.apiKey,
                   ContentType |-> IF Truthy(body) THEN "application/json" ELSE ""],
      bodyArg |-> body,
      hasBody |-> Truthy(body),
      body |-> IF Truthy(body) THEN JSONstringify(body) ELSE undefined]

\* ApiClient.request up to and including the call of fetch: the network call
\* it issues.  `params` is the argument as the handler passed it, `query`
\* holds the entries request() appended to the URL;
\* `pathQuery` the entries of a query the handler already put in the path.
\* `bodyArg` is the body as the handler passed it, `body` what fetch sends.
request(client, method, path, params, body) ==
  LET searchParams == IF params.has THEN DefinedEntries(params.e) ELSE <<>>
      queryString == SearchParamsToString(searchParams)
      url == client.baseUrl \o path \o (IF queryString # "" THEN "?" \o queryString ELSE "")
  IN [url |-> url,
      method |-> method,
      path |-> path,
      params |-> params,
      pathQuery |-> <<>>,
      query |-> searchParams,
      headers |-> [Authorization |-> "Bearer " \o client.apiKey,
                   ContentType |-> "application/json"],
      bodyArg |-> body,
      hasBody |-> Truthy(body),
      body |-> IF Truthy(body) THEN JSONstringify(body) ELSE undefined]

get(client, path, params) == request(client, "GET", path, params, undefined)

post(client, path, body) == request(client, "POST", path, NoParams, body)

patch(client, path, body) == request(client, "PATCH", path, NoParams, body)

put(client, path, body) == request(client, "PUT", path, NoParams, body)

delete(client, path) == request(client, "DELETE", path, NoParams, undefined)

---------------------------------------------------------------------------
(* Handlers: gates.ts *)

list_gates(client, args) == get(client, "/api/gates", NoParams)

get_gate(client, args) ==
  get(client, "/api/gates/" \o JsString(Prop(args, "gate_id")), NoParams)

create_gate_NullFill(client, args) ==
  post(client, "/api/gates",
       Obj([k \in {"name", "gate_id", "description", "profile", "allow_self_issued"}
              |-> IF Prop(args, k) = undefined THEN null ELSE Prop(args, k)]))

create_gate(client, args) ==
  post(client, "/api/gates",
       Obj([k \in {"name", "gate_id", "description", "profile", "allow_self_issued"}
              |-> Prop(args, k)]))

update_gate_Put(client, args) ==
  put(client, "/api/gates/" \o JsString(Prop(args, "gate_id")), Obj(Rest(args, "gate_id")))

update_gate(client, args) ==
  patch(client, "/api/gates/" \o JsString(Prop(args, "gate_id")), Obj(Rest(args, "gate_id")))

delete_gate(client, args) ==
  delete(client, "/api/gates/" \o JsString(Prop(args, "gate_id")))

(* Handlers: passports.ts *)

list_passports(client, args) ==
  get(client, "/api/gates/" \o JsString(Prop(args, "gate_id")) \o "/passports", NoParams)

get_passport(client, args) ==
  get(client, "/api/gates/" \o JsString(Prop(args, "gate_id")) \o "/passports/"
                \o JsString(Prop(args, "passport_id")), NoParams)

issue_passport_Selective(client, args) ==
  post(client, "/api/gates/" \o JsString(Prop(args, "gate_id")) \o "/passports",
       Obj([k \in {"agent_id", "permissions", "metadata"} |-> Prop(args, k)]))

issue_passport(client, args) ==
  post(client, "/api/gates/" \o JsString(Prop(args, "gate_id")) \o "/passports",
       Obj(Rest(args, "gate_id")))

revoke_passport(client, args) ==
  delete(client, "/api/gates/" \o JsString(Prop(args, "gate_id")) \o "/passports/"
                   \o JsString(Prop(args, "passport_id")))

reissue_passport(client, args) ==
  post(client, "/api/passports/" \o JsString(Prop(args, "passport_id")) \o "/reissue",
       Obj(SetIfDefined(NoProps, "accept_catalog_version",
                        Prop(args, "accept_catalog_version"))))

(* Handlers: attestations.ts *)

list_attestations(client, args) ==
  LET p1 == SetIfTruthy(<<>>, "passport_id", Prop(args, "passport_id"))
      p2 == SetIfTruthy(p1, "agent_id", Prop(args, "agent_id"))
      p3 == SetIfTruthy(p2, "permission", Prop(args, "permission"))
      p4 == SetIfTruthy(p3, "since", Prop(args, "since"))
      params == SetIfTruthy(p4, "limit", Prop(args, "limit"))
      query == SearchParamsToString(params)
      call == get(client, "/api/gates/" \o JsString(Prop(args, "gate_id")) \o "/attestations"
                            \o (IF query # "" THEN "?" \o query ELSE ""), NoParams)
  IN [call EXCEPT !.pathQuery = params]

record_attestation(client, args) ==
  post(client, "/api/gates/" \o JsString(Prop(args, "gate_id")) \o "/attestations",
       Obj(Rest(args, "gate_id")))

(* Handlers: catalogs.ts *)

get_catalog(client, args) ==
  get(client, "/api/gates/" \o JsString(Prop(args, "gate_id")) \o "/catalog", NoParams)

create_catalog(client, args) ==
  post(client, "/api/gates/" \o JsString(Prop(args, "gate_id")) \o "/catalog",
       Obj(Rest(args, "gate_id")))

publish_catalog(client, args) ==
  LET b1 == SetIfDefined(NoProps, "change_summary", Prop(args, "change_summary"))
      body == SetIfDefined(b1, "effective_at", Prop(args, "effective_at"))
  IN post(client, "/api/gates/" \o JsString(Prop(args, "gate_id")) \o "/catalog/publish",
          Obj(body))

list_catalog_versions(client, args) ==
  get(client, "/api/gates/" \o JsString(Prop(args, "gate_id")) \o "/catalog/versions", NoParams)

get_catalog_version(client, args) ==
  get(client, "/api/gates/" \o JsString(Prop(args, "gate_id")) \o "/catalog/"
                \o JsString(Prop(args, "version")), NoParams)

get_catalog_impact(client, args) ==
  get(client, "/api/gates/" \o JsString(Prop(args, "gate_id")) \o "/catalog/impact", NoParams)

(* Handlers: check.ts *)

check_gate(client, args) ==
  LET b0 == ("action" :> Prop(args, "action"))
      b1 == SetIfDefined(b0, "passport_id", Prop(args, "passport_id"))
      body == SetIfDefined(b1, "target", Prop(args, "target"))
  IN post(client, "/api/gates/" \o JsString(Prop(args, "gate_id")) \o "/check", Obj(body))

authorize_dry_run(client, args) ==
  LET b0 == [k \in {"gate_id", "passport", "requested_permission"} |-> Prop(args, k)]
      body == SetIfDefined(b0, "requested_constraints", Prop(args, "requested_constraints"))
  IN post(client, "/api/authorize/dry-run", Obj(body))

(* Handlers: constraints.ts *)

get_constraints(client, args) ==
  get(client, "/api/passports/" \o JsString(Prop(args, "passport_id")) \o "/constraints",
      NoParams)

set_constraints_Wrapped(client, args) ==
  put(client, "/api/passports/" \o JsString(Prop(args, "passport_id")) \o "/constraints",
      Obj("constraints" :> Prop(args, "constraints")))

set_constraints(client, args) ==
  put(client, "/api/passports/" \o JsString(Prop(args, "passport_id")) \o "/constraints",
      Prop(args, "constraints"))

list_constraint_types(client, args) ==
  get(client, "/api/constraints/types", Params(<<<<"category", Prop(args, "category")>>>>))

list_constraint_templates(client, args) ==
  get(client, "/api/constraint-templates", Params(<<<<"category", Prop(args, "category")>>>>))

apply_constraint_template_Put(client, args) ==
  put(client, "/api/passports/" \o JsString(Prop(args, "passport_id")) \o "/constraints",
      Obj("template_slug" :> Prop(args, "template_slug")))

apply_constraint_template(client, args) ==
  post(client, "/api/passports/" \o JsString(Prop(args, "passport_id")) \o "/constraints",
       Obj("template_slug" :> Prop(args, "template_slug")))

create_constraint_template(client, args) ==
  post(client, "/api/constraint-templates", Obj(args))

(* Handlers: enforcement.ts *)

enforce_action(client, args) ==
  LET b0 == [k \in {"passport_id", "action"} |-> Prop(args, k)]
      b1 == SetIfDefined(b0, "target", Prop(args, "target"))
      b2 == SetIfDefined(b1, "cost_cents", Prop(args, "cost_cents"))
      body == SetIfDefined(b2, "metadata", Prop(args, "metadata"))
  IN post(client, "/api/enforce", Obj(body))

list_enforcement_attestations(client, args) ==
  get(client, "/api/passports/" \o JsString(Prop(args, "passport_id")) \o "/enforcement",
      Params(<<<<"decision", Prop(args, "decision")>>, <<"limit", Prop(args, "limit")>>>>))

get_enforcement_attestation(client, args) ==
  get(client, "/api/enforcement/" \o JsString(Prop(args, "attestation_id")), NoParams)

verify_enforcement_attestation(client, args) ==
  post(client, "/api/enforcement/" \o JsString(Prop(args, "attestation_id")) \o "/verify",
       undefined)

(* Handlers: anonymous.ts *)

get_anonymous_policy(client, args) ==
  get(client, "/api/gates/" \o JsString(Prop(args, "gate_id")) \o "/anonymous-policy", NoParams)

set_anonymous_policy(client, args) ==
  put(client, "/api/gates/" \o JsString(Prop(args, "gate_id")) \o "/anonymous-policy",
      Obj(Rest(args, "gate_id")))

get_anonymous_log(client, args) ==
  get(client, "/api/gates/" \o JsString(Prop(args, "gate_id")) \o "/anonymous-log", NoParams)

(* Handlers: state.ts *)

get_cumulative_state(client, args) ==
  get(client, "/api/passports/" \o JsString(Prop(args, "passport_id")) \o "/state", NoParams)

reset_cumulative_state_DefaultWindow(client, args) ==
  post(client, "/api/passports/" \o JsString(Prop(args, "passport_id")) \o "/state/reset",
       Obj("window_type" :> (IF Prop(args, "window_type") = undefined THEN Str("all")
                             ELSE Prop(args, "window_type"))))

reset_cumulative_state(client, args) ==
  post(client, "/api/passports/" \o JsString(Prop(args, "passport_id")) \o "/state/reset",
       Obj(SetIfDefined(NoProps, "window_type", Prop(args, "window_type"))))

(* Handlers: commerce.ts *)

discover_services(client, args) ==
  get(client, "/api/discover",
      Params(<<<<"capability", Prop(args, "capability")>>,
               <<"max_price_cents", Prop(args, "max_price_cents")>>,
               <<"min_uptime_bp", Prop(args, "min_uptime_bp")>>,
               <<"max_response_time_ms", Prop(args, "max_response_time_ms")>>,
               <<"pricing_model", Prop(args, "pricing_model")>>,
               <<"sort", Prop(args, "sort")>>,
               <<"limit", Prop(args, "limit")>>,
               <<"offset", Prop(args, "offset")>>>>))

QuantityOrDefault_Falsy(quantity) == IF Truthy(quantity) THEN quantity ELSE Num(1)

\* `quantity ?? 1`: the right operand is taken for undefined and for null
QuantityOrDefault(quantity) ==
  IF quantity = undefined \/ quantity = null THEN Num(1) ELSE quantity

issue_consumption_attestation(client, args) ==
  LET b0 == [k \in {"passport_id", "gate_id", "action", "outcome"} |-> Prop(args, k)]
             @@ ("quantity" :> QuantityOrDefault(Prop(args, "quantity")))
      b1 == SetIfDefined(b0, "agent_pop", Prop(args, "agent_pop"))
      b2 == SetIfDefined(b1, "request_payload_hash", Prop(args, "request_payload_hash"))
      b3 == SetIfDefined(b2, "response_payload_hash", Prop(args, "response_payload_hash"))
      body == SetIfDefined(b3, "metadata", Prop(args, "metadata"))
  IN post(client, "/api/consume", Obj(body))

generate_settlement(client, args) ==
  LET b0 == [k \in {"gate_id", "period_type", "period_start", "period_end"} |-> Prop(args, k)]
      body == SetIfDefined(b0, "agent_id", Prop(args, "agent_id"))
  IN post(client, "/api/billing", Obj(body))

list_settlements_Unrenamed(client, args) ==
  get(client, "/api/billing",
      Params(<<<<"gate_id", Prop(args, "gate_id")>>,
               <<"agent_id", Prop(args, "agent_id")>>,
               <<"period_type", Prop(args, "period_type")>>,
               <<"status", Prop(args, "status")>>,
               <<"from_date", Prop(args, "from_date")>>,
               <<"to_date", Prop(args, "to_date")>>,
               <<"limit", Prop(args, "limit")>>,
               <<"offset", Prop(args, "offset")>>>>))

list_settlements(client, args) ==
  get(client, "/api/billing",
      Params(<<<<"gate_id", Prop(args, "gate_id")>>,
               <<"agent_id", Prop(args, "agent_id")>>,
               <<"period_type", Prop(args, "period_type")>>,
               <<"status", Prop(args, "status")>>,
               <<"from", Prop(args, "from_date")>>,
               <<"to", Prop(args, "to_date")>>,
               <<"limit", Prop(args, "limit")>>,
               <<"offset", Prop(args, "offset")>>>>))

get_settlement(client, args) ==
  get(client, "/api/billing/" \o JsString(Prop(args, "settlement_id")), NoParams)

update_settlement_status_Patch(client, args) ==
  patch(client, "/api/billing/" \o JsString(Prop(args, "settlement_id")) \o "/status",
        Obj("status" :> Prop(args, "status")))

update_settlement_status(client, args) ==
  post(client, "/api/billing/" \o JsString(Prop(args, "settlement_id")) \o "/status",
       Obj("status" :> Prop(args, "status")))

get_sla_compliance(client, args) ==
  get(client, "/api/gates/" \o JsString(Prop(args, "gate_id")) \o "/sla",
      Params(<<<<"period_start", Prop(args, "period_start")>>,
               <<"period_end", Prop(args, "period_end")>>,
               <<"permission_key", Prop(args, "permission_key")>>>>))

(* Handlers: api-keys.ts *)

list_api_keys(client, args) == get(client, "/api/users/api-keys", NoParams)

create_api_key(client, args) ==
  post(client, "/api/users/api-keys",
       Obj(SetIfDefined("name" :> Prop(args, "name"), "scopes", Prop(args, "scopes"))))

revoke_api_key(client, args) ==
  delete(client, "/api/users/api-keys/" \o JsString(Prop(args, "key_id")))

---------------------------------------------------------------------------
(* Dispatch table: tools/index.ts *)

gatesHandlers == {"list_gates", "get_gate", "create_gate", "update_gate", "delete_gate"}

passportsHandlers_NoReissue ==
  {"list_passports", "get_passport", "issue_passport", "revoke_passport"}

passportsHandlers ==
  {"list_passports", "get_passport", "issue_passport", "revoke_passport", "reissue_passport"}

attestationsHandlers == {"list_attestations", "record_attestation"}

catalogsHandlers ==
  {"get_catalog", "create_catalog", "publish_catalog", "list_catalog_versions",
   "get_catalog_version", "get_catalog_impact"}

checkHandlers == {"check_gate", "authorize_dry_run"}

constraintsHandlers ==
  {"get_constraints", "set_constraints", "list_constraint_types", "list_constraint_templates",
   "apply_constraint_template", "create_constraint_template"}

enforcementHandlers ==
  {"enforce_action", "list_enforcement_attestations", "get_enforcement_attestation",
   "verify_enforcement_attestation"}

anonymousHandlers == {"get_anonymous_policy", "set_anonymous_policy", "get_anonymous_log"}

stateHandlers == {"get_cumulative_state", "reset_cumulative_state"}

commerceHandlers ==
  {"discover_services", "issue_consumption_attestation", "generate_settlement",
   "list_settlements", "get_settlement", "update_settlement_status", "get_sla_compliance"}

apiKeysHandlers == {"list_api_keys", "create_api_key", "revoke_api_key"}

\* the own property names of the object literal allHandlers
allHandlers ==
  gatesHandlers \cup passportsHandlers \cup attestationsHandlers \cup catalogsHandlers
    \cup checkHandlers \cup constraintsHandlers \cup enforcementHandlers
    \cup anonymousHandlers \cup stateHandlers \cup commerceHandlers \cup apiKeysHandlers

\* the names of the tool descriptors each module exports, in array order
gatesTools_WithCatalog ==
  <<"list_gates", "get_gate", "create_gate", "update_gate", "delete_gate", "get_catalog",
    "create_catalog">>

gatesTools == <<"list_gates", "get_gate", "create_gate", "update_gate", "delete_gate">>

passportsTools ==
  <<"list_passports", "get_passport", "issue_passport", "revoke_passport", "reissue_passport">>

attestationsTools == <<"list_attestations", "record_attestation">>

catalogsTools ==
  <<"get_catalog", "create_catalog", "publish_catalog", "list_catalog_versions",
    "get_catalog_version", "get_catalog_impact">>

checkTools == <<"check_gate", "authorize_dry_run">>

constraintsTools ==
  <<"get_constraints", "set_constraints", "list_constraint_types", "list_constraint_templates",
    "apply_constraint_template", "create_constraint_template">>

enforcementTools ==
  <<"enforce_action", "list_enforcement_attestations", "get_enforcement_attestation",
    "verify_enforcement_attestation">>

anonymousTools == <<"get_anonymous_policy", "set_anonymous_policy", "get_anonymous_log">>

stateTools == <<"get_cumulative_state", "reset_cumulative_state">>

commerceTools ==
  <<"discover_services", "issue_consumption_attestation", "generate_settlement",
    "list_settlements", "get_settlement", "update_settlement_status", "get_sla_compliance">>

apiKeysTools == <<"list_api_keys", "create_api_key", "revoke_api_key">>

\* the advertised catalog: the names of allTools, in order
allTools ==
  gatesTools \o passportsTools \o attestationsTools \o catalogsTools \o checkTools
    \o constraintsTools \o enforcementTools \o anonymousTools \o stateTools
    \o commerceTools \o apiKeysTools

ToolNames == {allTools[i] : i \in 1..Len(allTools)}

\* allHandlers is a plain object: a name it does not own is looked up on
\* Object.prototype, whose properties these are (the ones the model draws)
ObjectPrototypeFunctions == {"constructor", "toString", "valueOf"}

ObjectPrototypeObjects == {"__proto__"}

\* `allHandlers[name]`: what the property read yields
Lookup(name) ==
  CASE name \in registry.handlers -> "handler"
    [] name \in ObjectPrototypeFunctions -> "inherited function"
    [] name \in ObjectPrototypeObjects -> "inherited object"
    [] OTHER -> "undefined"

\* `handler(api, args)` for an own property of allHandlers
CallHandler(name, client, args) ==
  CASE name = "list_gates" -> list_gates(client, args)
    [] name = "get_gate" -> get_gate(client, args)
    [] name = "create_gate" -> create_gate(client, args)
    [] name = "update_gate" -> update_gate(client, args)
    [] name = "delete_gate" -> delete_gate(client, args)
    [] name = "list_passports" -> list_passports(client, args)
    [] name = "get_passport" -> get_passport(client, args)
    [] name = "issue_passport" -> issue_passport(client, args)
    [] name = "revoke_passport" -> revoke_passport(client, args)
    [] name = "reissue_passport" -> reissue_passport(client, args)
    [] name = "list_attestations" -> list_attestations(client, args)
    [] name = "record_attestation" -> record_attestation(client, args)
    [] name = "get_catalog" -> get_catalog(client, args)
    [] name = "create_catalog" -> create_catalog(client, args)
    [] name = "publish_catalog" -> publish_catalog(client, args)
    [] name = "list_catalog_versions" -> list_catalog_versions(client, args)
    [] name = "get_catalog_version" -> get_catalog_version(client, args)
    [] name = "get_catalog_impact" -> get_catalog_impact(client, args)
    [] name = "check_gate" -> check_gate(client, args)
    [] name = "authorize_dry_run" -> authorize_dry_run(client, args)
    [] name = "get_constraints" -> get_constraints(client, args)
    [] name = "set_constraints" -> set_constraints(client, args)
    [] name = "list_constraint_types" -> list_constraint_types(client, args)
    [] name = "list_constraint_templates" -> list_constraint_templates(client, args)
    [] name = "apply_constraint_template" -> apply_constraint_template(client, args)
    [] name = "create_constraint_template" -> create_constraint_template(client, args)
    [] name = "enforce_action" -> enforce_action(client, args)
    [] name = "list_enforcement_attestations" -> list_enforcement_attestations(client, args)
    [] name = "get_enforcement_attestation" -> get_enforcement_attestation(client, args)
    [] name = "verify_enforcement_attestation" -> verify_enforcement_attestation(client, args)
    [] name = "get_anonymous_policy" -> get_anonymous_policy(client, args)
    [] name = "set_anonymous_policy" -> set_anonymous_policy(client, args)
    [] name = "get_anonymous_log" -> get_anonymous_log(client, args)
    [] name = "get_cumulative_state" -> get_cumulative_state(client, args)
    [] name = "reset_cumulative_state" -> reset_cumulative_state(client, args)
    [] name = "discover_services" -> discover_services(client, args)
    [] name = "issue_consumption_attestation" -> issue_consumption_attestation(client, args)
    [] name = "generate_settlement" -> generate_settlement(client, args)
    [] name = "list_settlements" -> list_settlements(client, args)
    [] name = "get_settlement" -> get_settlement(client, args)
    [] name = "update_settlement_status" -> update_settlement_status(client, args)
    [] name = "get_sla_compliance" -> get_sla_compliance(client, args)
    [] name = "list_api_keys" -> list_api_keys(client, args)
    [] name = "create_api_key" -> create_api_key(client, args)
    [] name = "revoke_api_key" -> revoke_api_key(client, args)

---------------------------------------------------------------------------
(* Outcomes of a dispatch *)

NoOutcome == [kind |-> "pending", value |-> undefined, message |-> ""]

Result(v) == [kind |-> "result", value |-> v, message |-> ""]

Error(m) == [kind |-> "error", value |-> undefined, message |-> m]

\* `handler(api, args)` when the property read found something on
\* Object.prototype instead of a handler: Object(api, args) returns api,
\* Object.prototype.toString called with no receiver returns a text,
\* Object.prototype.valueOf called with no receiver throws a TypeError, and
\* calling a property that is not a function throws a TypeError
CallInherited(name, client, args) ==
  CASE name = "constructor" ->
         Result(Obj([k \in {"baseUrl", "apiKey"} |-> Str(client[k])]))
    [] name = "toString" -> Result(Str("[object Undefined]"))
    [] name = "valueOf" -> Error("Cannot convert undefined or null to object")
    [] OTHER -> Error("handler is not a function")

---------------------------------------------------------------------------
(* Responses and the part of ApiClient.request after `await fetch` *)

Statuses == {200, 201, 204, 401, 500}

StatusText(status) ==
  CASE status = 200 -> "OK"
    [] status = 201 -> "Created"
    [] status = 204 -> "No Content"
    [] status = 401 -> "Unauthorized"
    [] status = 404 -> "Not Found"
    [] OTHER -> "Error"

\* a response body: text that parses as the JSON value `json`, or text that
\* does not parse
JsonBody(v) == [parses |-> TRUE, json |-> v]

NotJson == [parses |-> FALSE, json |-> undefined]

ResponseBodies ==
  {NotJson,
   JsonBody(EmptyObject),
   JsonBody(null),
   JsonBody(Str("plain")),
   JsonBody(Obj("id" :> Str("gate_1"))),
   JsonBody(Obj("message" :> Str("Invalid API key"))),
   JsonBody(Obj("error" :> Str("not_found"))),
   JsonBody(Obj(("message" :> Str("Gate not found")) @@ ("error" :> Str("not_found")))),
   JsonBody(Obj(("message" :> Str("")) @@ ("error" :> Str("not_found")))),
   JsonBody(Obj(("message" :> Str("")) @@ ("error" :> Str(""))))}

Responses ==
  {[status |-> st, statusText |-> StatusText(st), body |-> b] :
     st \in Statuses, b \in ResponseBodies}

NoResponse == [status |-> 0, statusText |-> "", body |-> NotJson]

\* response.ok
Ok(response) == response.status >= 200 /\ response.status <= 299

SyntaxErrorMessage == "Unexpected token < in JSON at position 0"

FetchFailedMessage == "fetch failed"

ErrorMessage_ErrorFirst(response) ==
  IF response.body.parses /\ response.body.json # null
    THEN LET error == response.body.json.o
             message == Prop(error, "message")
             err == Prop(error, "error")
         IN IF Truthy(err) THEN JsString(err)
            ELSE IF Truthy(message) THEN JsString(message)
            ELSE "API error: " \o NatToStr(response.status)
    ELSE "API error: " \o NatToStr(response.status) \o " " \o response.statusText

ErrorMessage_NoCatch(response) ==
  IF response.body.parses /\ response.body.json # null
    THEN LET error == response.body.json.o
             message == Prop(error, "message")
             err == Prop(error, "error")
         IN IF Truthy(message) THEN JsString(message)
            ELSE IF Truthy(err) THEN JsString(err)
            ELSE "API error: " \o NatToStr(response.status)
    ELSE SyntaxErrorMessage

\* the `if (!response.ok)` block: the message of the Error it throws.
\* Reading a property of null throws inside the try, like a body that does
\* not parse, and lands in the catch.
ErrorMessage(response) ==
  IF response.body.parses /\ response.body.json # null
    THEN LET error == response.body.json.o
             message == Prop(error, "message")
             err == Prop(error, "error")
         IN IF Truthy(message) THEN JsString(message)
            ELSE IF Truthy(err) THEN JsString(err)
            ELSE "API error: " \o NatToStr(response.status)
    ELSE "API error: " \o NatToStr(response.status) \o " " \o response.statusText

requestResult_No204(response) ==
  IF ~Ok(response) THEN Error(ErrorMessage(response))
  ELSE IF response.body.parses THEN Result(response.body.json)
  ELSE Error(SyntaxErrorMessage)

\* what request() returns or throws once fetch has resolved with `response`
requestResult(response) ==
  IF ~Ok(response) THEN Error(ErrorMessage(response))
  ELSE IF response.status = 204 THEN Result(EmptyObject)
  ELSE IF response.body.parses THEN Result(response.body.json)
  ELSE Error(SyntaxErrorMessage)

---------------------------------------------------------------------------
(* Argument records the model dispatches *)

\* inputSchema.required of each tool
Required(name) ==
  CASE name \in {"get_gate", "update_gate", "delete_gate", "list_passports",
                 "list_attestations", "get_catalog", "publish_catalog",
                 "list_catalog_versions", "get_catalog_impact", "get_anonymous_policy",
                 "set_anonymous_policy", "get_anonymous_log"} -> {"gate_id"}
    [] name = "create_gate" -> {"name", "gate_id", "profile"}
    [] name \in {"get_passport", "revoke_passport"} -> {"gate_id", "passport_id"}
    [] name = "issue_passport" -> {"gate_id", "agent_id", "permissions"}
    [] name \in {"reissue_passport", "get_constraints", "get_cumulative_state",
                 "reset_cumulative_state", "list_enforcement_attestations"} -> {"passport_id"}
    [] name = "record_attestation" ->
         {"gate_id", "passport_id", "agent_id", "permission", "tool_name", "result"}
    [] name = "create_catalog" -> {"gate_id", "permissions"}
    [] name = "get_catalog_version" -> {"gate_id", "version"}
    [] name = "check_gate" -> {"gate_id", "action"}
    [] name = "authorize_dry_run" -> {"gate_id", "passport", "requested_permission"}
    [] name = "set_constraints" -> {"passport_id", "constraints"}
    [] name = "apply_constraint_template" -> {"passport_id", "template_slug"}
    [] name = "create_constraint_template" -> {"slug", "name", "constraints"}
    [] name = "enforce_action" -> {"passport_id", "action"}
    [] name \in {"get_enforcement_attestation", "verify_enforcement_attestation"} ->
         {"attestation_id"}
    [] name = "discover_services" -> {"capability"}
    [] name = "issue_consumption_attestation" -> {"passport_id", "gate_id", "action", "outcome"}
    [] name = "generate_settlement" -> {"gate_id", "period_type", "period_start", "period_end"}
    [] name \in {"get_settlement", "update_settlement_status"} ->
         {"settlement_id"} \cup (IF name = "update_settlement_status" THEN {"status"} ELSE {})
    [] name = "get_sla_compliance" -> {"gate_id", "period_start", "period_end"}
    [] name = "create_api_key" -> {"name"}
    [] name = "revoke_api_key" -> {"key_id"}
    [] OTHER -> {}

\* inputSchema.properties of each tool that are not required
Optional(name) ==
  CASE name = "create_gate" -> {"description", "allow_self_issued"}
    [] name = "update_gate" -> {"name", "description", "profile", "allow_self_issued"}
    [] name = "issue_passport" ->
         {"agent_name", "agent_public_key", "constraints", "expires_in_seconds", "expires_in",
          "metadata"}
    [] name = "reissue_passport" -> {"accept_catalog_version"}
    [] name = "list_attestations" -> {"passport_id", "agent_id", "permission", "since", "limit"}
    [] name = "record_attestation" ->
         {"denial_code", "input_hash", "output_hash", "constraints_used", "execution_ms",
          "metadata"}
    [] name = "create_catalog" -> {"version", "catalog_name", "description", "is_active"}
    [] name = "publish_catalog" -> {"change_summary", "effective_at"}
    [] name = "check_gate" -> {"passport_id", "target"}
    [] name = "authorize_dry_run" -> {"requested_constraints"}
    [] name \in {"list_constraint_types", "list_constraint_templates"} -> {"category"}
    [] name = "create_constraint_template" -> {"description", "category"}
    [] name = "enforce_action" -> {"target", "cost_cents", "metadata"}
    [] name = "list_enforcement_attestations" -> {"decision", "limit"}
    [] name = "set_anonymous_policy" ->
         {"enabled", "allowed_actions", "blocked_actions", "rate_limit_per_minute",
          "rate_limit_per_hour", "read_only", "upgrade_message", "upgrade_url"}
    [] name = "reset_cumulative_state" -> {"window_type"}
    [] name = "discover_services" ->
         {"max_price_cents", "min_uptime_bp", "max_response_time_ms", "pricing_model",
          "sort", "limit", "offset"}
    [] name = "issue_consumption_attestation" ->
         {"quantity", "agent_pop", "request_payload_hash", "response_payload_hash", "metadata"}
    [] name = "generate_settlement" -> {"agent_id"}
    [] name = "list_settlements" ->
         {"gate_id", "agent_id", "period_type", "status", "from_date", "to_date",
          "limit", "offset"}
    [] name = "get_sla_compliance" -> {"permission_key"}
    [] name = "create_api_key" -> {"scopes"}
    [] OTHER -> {}

\* the pass-through writes: the handler forwards whatever the record holds
PassThrough ==
  {"update_gate", "issue_passport", "record_attestation", "create_catalog",
   "set_anonymous_policy", "create_constraint_template"}

\* the fields the model draws argument records over: the schema's fields, a
\* selection of them for the operations with many, and for the pass-through
\* writes also "note", a field no schema names
Drawn(name) ==
  CASE name = "update_gate" -> {"gate_id", "name", "allow_self_issued", "note"}
    [] name = "issue_passport" -> {"gate_id", "agent_id", "permissions", "metadata", "note"}
    [] name = "record_attestation" -> {"gate_id", "passport_id", "result", "metadata", "note"}
    [] name = "create_catalog" -> {"gate_id", "permissions", "version", "is_active", "note"}
    [] name = "set_anonymous_policy" -> {"gate_id", "enabled", "allowed_actions", "note"}
    [] name = "create_constraint_template" -> {"slug", "name", "constraints", "category", "note"}
    [] name = "discover_services" ->
         {"capability", "max_price_cents", "pricing_model", "sort", "limit", "offset"}
    [] name = "issue_consumption_attestation" ->
         {"passport_id", "gate_id", "action", "outcome", "quantity", "agent_pop",
          "response_payload_hash"}
    [] name = "list_settlements" ->
         {"gate_id", "status", "from_date", "to_date", "limit", "offset"}
    [] OTHER -> Required(name) \cup Optional(name)

\* the values the model supplies for a field
FieldValues(name, k) ==
  CASE k = "quantity" -> {Num(n) : n \in 0..MaxQuantity}
    [] k = "limit" -> {Num(0), Num(5)}
    [] k \in {"offset", "version", "accept_catalog_version", "cost_cents",
              "max_price_cents", "min_uptime_bp", "max_response_time_ms"} -> {Num(2)}
    [] k = "constraints" /\ name = "set_constraints" ->
         {Obj("max_calls" :> Num(5)), Obj("passport_id" :> Str("p9")), Num(0), null}
    [] k \in {"constraints", "metadata", "agent_pop", "passport", "requested_constraints"} ->
         {Obj("k" :> Str("v"))}
    [] k \in {"permissions", "scopes", "allowed_actions"} -> {Arr("r,w")}
    [] k \in {"allow_self_issued", "enabled", "is_active"} -> {Bool(FALSE)}
    [] k = "category" -> {Str("rate"), Str("a b")}
    [] k \in {"passport_id", "since"} /\ name = "list_attestations" -> {Str(""), Str("p1")}
    [] k = "gate_id" -> {Str("gate_1")}
    [] k = "passport_id" -> {Str("p1")}
    [] OTHER -> {Str("x")}

\* every record over a subset of `fields`
RECURSIVE Records(_, _)
Records(name, fields) ==
  IF fields = {} THEN {<<>>}
  ELSE LET k == CHOOSE x \in fields : TRUE
           rest == Records(name, fields \ {k})
       IN rest \cup {(k :> v) @@ r : v \in FieldValues(name, k), r \in rest}

\* names that are not in the dispatch table
UnregisteredNames == {"nonexistent_tool", "", "constructor", "toString", "valueOf", "__proto__"}

Names == allHandlers \cup ToolNames \cup UnregisteredNames

ArgRecords(name) ==
  IF name \in allHandlers THEN Records(name, Drawn(name)) ELSE Records(name, {"gate_id", "note"})

---------------------------------------------------------------------------
(* The state machine *)

NoDispatch ==
  [name |-> "", args |-> <<>>, calls |-> <<>>, response |-> NoResponse, outcome |-> NoOutcome]

IssuedCalls_Retry(name, client, args) ==
  <<CallHandler(name, client, args), CallHandler(name, client, args)>>

IssuedCalls_Counted(name, client, args) ==
  <<[CallHandler(name, client, args) EXCEPT !.url = @ \o "#" \o NatToStr(served)]>>

\* the network calls made while the handler runs: each handler makes one
\* call of the client, and request() calls fetch once
IssuedCalls(name, client, args) == <<CallHandler(name, client, args)>>

\* what the call-tool request handler has returned: nothing yet
NoReply == [how |-> "none", isError |-> "absent", text |-> "", json |-> undefined]

\* main() has registered its handlers and connected the transport
Serving ==
  [status |-> "serving", exitCode |-> 0, registered |-> TRUE, connected |-> TRUE,
   arguments |-> undefined, reply |-> NoReply]

\* the state once main() has built the client from the configuration `e`
\* and the server waits for requests
Started(e) ==
  /\ env = e
  /\ api = ApiClient([baseUrl |-> e.UNIPLEX_API_URL, apiKey |-> e.UNIPLEX_API_KEY])
  /\ registry = [tools |-> allTools, handlers |-> allHandlers]
  /\ pc = "idle"
  /\ d = NoDispatch
  /\ served = 0
  /\ pc2 = "idle"
  /\ d2 = NoDispatch
  /\ server = Serving

Init == Started([UNIPLEX_API_URL |-> BaseUrlConfig, UNIPLEX_API_KEY |-> ApiKeyConfig])

HandleToolCall_Registers(name, args) ==
  /\ pc = "idle"
  /\ served < MaxDispatches
  /\ LET handler == Lookup(name)
         start == [NoDispatch EXCEPT !.name = name, !.args = args]
     IN CASE handler = "undefined" ->
               /\ d' = [start EXCEPT !.outcome = Error("Unknown tool: " \o name)]
               /\ pc' = "settled"
               /\ registry' = [registry EXCEPT !.handlers = @ \cup {name}]
          [] handler = "handler" ->
               /\ d' = [start EXCEPT !.calls = IssuedCalls(name, api, args)]
               /\ pc' = "awaiting"
               /\ registry' = registry
          [] OTHER ->
               /\ d' = [start EXCEPT !.outcome = CallInherited(name, api, args)]
               /\ pc' = "settled"
               /\ registry' = registry
  /\ UNCHANGED <<env, api, served, pc2, d2, server>>

\* handleToolCall(api, name, args) up to its first suspension
HandleToolCall(name, args) ==
  /\ pc = "idle"
  /\ served < MaxDispatches
  /\ LET handler == Lookup(name)
         start == [NoDispatch EXCEPT !.name = name, !.args = args]
     IN CASE handler = "undefined" ->
               /\ d' = [start EXCEPT !.outcome = Error("Unknown tool: " \o name)]
               /\ pc' = "settled"
          [] handler = "handler" ->
               /\ d' = [start EXCEPT !.calls = IssuedCalls(name, api, args)]
               /\ pc' = "awaiting"
          [] OTHER ->
               /\ d' = [start EXCEPT !.outcome = CallInherited(name, api, args)]
               /\ pc' = "settled"
  /\ UNCHANGED <<env, api, registry, served, pc2, d2, server>>

FetchResolves_Stalls(response) ==
  /\ pc = "awaiting"
  /\ d' = [d EXCEPT !.response = response]
  /\ pc' = "awaiting"
  /\ UNCHANGED <<env, api, registry, served, pc2, d2, server>>

\* fetch resolves with a response: request() returns or throws
FetchResolves(response) ==
  /\ pc = "awaiting"
  /\ d' = [d EXCEPT !.response = response, !.outcome = requestResult(response)]
  /\ pc' = "settled"
  /\ UNCHANGED <<env, api, registry, served, pc2, d2, server>>

\* fetch rejects (the network call fails): the rejection propagates
FetchRejects ==
  /\ pc = "awaiting"
  /\ d' = [d EXCEPT !.outcome = Error(FetchFailedMessage)]
  /\ pc' = "settled"
  /\ UNCHANGED <<env, api, registry, served, pc2, d2, server>>

\* the caller has received the outcome; nothing of the dispatch is kept
Return ==
  /\ pc = "settled"
  /\ d' = NoDispatch
  /\ pc' = "idle"
  /\ served' = served + 1
  /\ UNCHANGED <<env, api, registry, pc2, d2, server>>

Next ==
  \/ \E name \in Names : \E args \in ArgRecords(name) : HandleToolCall(name, args)
  \/ \E response \in Responses : FetchResolves(response)
  \/ FetchRejects
  \/ Return

Spec == Init /\ [][Next]_vars

---------------------------------------------------------------------------
(* The server started under each configuration of the base URL *)

\* values of UNIPLEX_API_URL: the built-in default, and URLs that end in one
\* slash or in two
BaseUrls ==
  {"https://uniplex.ai", "https://uniplex.ai/", "http://localhost:3000/",
   "http://localhost:3000//"}

Environments ==
  {[UNIPLEX_API_URL |-> u, UNIPLEX_API_KEY |-> ApiKeyConfig] : u \in BaseUrls}

InitConfig == \E e \in Environments : Started(e)

\* a success with a body, a success without one, and a failure
SomeResponses ==
  {[status |-> 200, statusText |-> StatusText(200), body |-> JsonBody(Obj("id" :> Str("gate_1")))],
   [status |-> 204, statusText |-> StatusText(204), body |-> NotJson],
   [status |-> 500, statusText |-> StatusText(500), body |-> NotJson]}

NextConfig ==
  \/ \E name \in Names : \E args \in ArgRecords(name) : HandleToolCall(name, args)
  \/ \E response \in SomeResponses : FetchResolves(response)
  \/ FetchRejects
  \/ Return

SpecConfig == InitConfig /\ [][NextConfig]_vars

---------------------------------------------------------------------------
(* The transport settles every call it was given: the promise fetch returned
   resolves or rejects, and the continuation of request() then runs *)

FetchSettles ==
  \/ \E response \in SomeResponses : FetchResolves(response)
  \/ FetchRejects

SpecLive == Init /\ [][NextConfig]_vars /\ WF_vars(FetchSettles)

---------------------------------------------------------------------------
(* Two invocations of handleToolCall in flight at once.  Each invocation
   has its own locals; the client and the table are the ones they share. *)

HandleToolCall2(name, args) ==
  /\ pc2 = "idle"
  /\ served < MaxDispatches
  /\ LET handler == Lookup(name)
         start == [NoDispatch EXCEPT !.name = name, !.args = args]
     IN CASE handler = "undefined" ->
               /\ d2' = [start EXCEPT !.outcome = Error("Unknown tool: " \o name)]
               /\ pc2' = "settled"
          [] handler = "handler" ->
               /\ d2' = [start EXCEPT !.calls = IssuedCalls(name, api, args)]
               /\ pc2' = "awaiting"
          [] OTHER ->
               /\ d2' = [start EXCEPT !.outcome = CallInherited(name, api, args)]
               /\ pc2' = "settled"
  /\ UNCHANGED <<env, api, registry, served, pc, d, server>>

FetchResolves2_Shared(response) ==
  /\ pc2 = "awaiting"
  /\ d2' = [d2 EXCEPT !.response = response, !.outcome = requestResult(response)]
  /\ pc2' = "settled"
  /\ IF pc = "awaiting"
       THEN /\ d' = [d EXCEPT !.response = response, !.outcome = requestResult(response)]
            /\ pc' = "settled"
       ELSE UNCHANGED <<pc, d>>
  /\ UNCHANGED <<env, api, registry, served, server>>

FetchResolves2(response) ==
  /\ pc2 = "awaiting"
  /\ d2' = [d2 EXCEPT !.response = response, !.outcome = requestResult(response)]
  /\ pc2' = "settled"
  /\ UNCHANGED <<env, api, registry, served, pc, d, server>>

FetchRejects2 ==
  /\ pc2 = "awaiting"
  /\ d2' = [d2 EXCEPT !.outcome = Error(FetchFailedMessage)]
  /\ pc2' = "settled"
  /\ UNCHANGED <<env, api, registry, served, pc, d, server>>

Return2 ==
  /\ pc2 = "settled"
  /\ d2' = NoDispatch
  /\ pc2' = "idle"
  /\ served' = served + 1
  /\ UNCHANGED <<env, api, registry, pc, d, server>>

\* the operations the overlapping invocations are drawn from: a read, a
\* write with a body, a read with a query, and two names without a handler
OverlapNames ==
  {"get_gate", "update_gate", "list_constraint_types", "nonexistent_tool", "constructor"}

NextOverlap ==
  \/ \E name \in OverlapNames : \E args \in ArgRecords(name) : HandleToolCall(name, args)
  \/ \E response \in SomeResponses : FetchResolves(response)
  \/ FetchRejects
  \/ Return
  \/ \E name \in OverlapNames : \E args \in ArgRecords(name) : HandleToolCall2(name, args)
  \/ \E response \in SomeResponses : FetchResolves2(response)
  \/ FetchRejects2
  \/ Return2

SpecOverlap == Init /\ [][NextOverlap]_vars

---------------------------------------------------------------------------
(* main(): the configuration check, the start of the server and the
   call-tool request handler *)

DefaultApiUrl == "https://uniplex.ai"

\* process.env at start: each of the two variables unset, empty or set
ProcessEnvs ==
  {u @@ k : u \in {<<>>, [UNIPLEX_API_URL |-> "http://localhost:3000/"]},
            k \in {<<>>, [UNIPLEX_API_KEY |-> ""], [UNIPLEX_API_KEY |-> ApiKeyConfig]}}

\* const UNIPLEX_API_URL = process.env.UNIPLEX_API_URL || 'https://uniplex.ai'
ApiUrlOf(e) ==
  IF "UNIPLEX_API_URL" \in DOMAIN e /\ e.UNIPLEX_API_URL # "" THEN e.UNIPLEX_API_URL
  ELSE DefaultApiUrl

\* !UNIPLEX_API_KEY
KeyMissing(e) == "UNIPLEX_API_KEY" \notin DOMAIN e \/ e.UNIPLEX_API_KEY = ""

\* no ApiClient has been constructed
NoClient == [baseUrl |-> "", apiKey |-> ""]

Starting ==
  [status |-> "starting", exitCode |-> 0, registered |-> FALSE, connected |-> FALSE,
   arguments |-> undefined, reply |-> NoReply]

InitServer ==
  /\ env \in ProcessEnvs
  /\ api = NoClient
  /\ registry = [tools |-> allTools, handlers |-> allHandlers]
  /\ pc = "idle"
  /\ d = NoDispatch
  /\ served = 0
  /\ pc2 = "idle"
  /\ d2 = NoDispatch
  /\ server = Starting

MainValidate_UnsetOnly ==
  /\ server.status = "starting"
  /\ server' = IF "UNIPLEX_API_KEY" \notin DOMAIN env
                 THEN [server EXCEPT !.status = "exited", !.exitCode = 1]
                 ELSE [server EXCEPT !.status = "validated"]
  /\ UNCHANGED <<env, api, registry, pc, d, served, pc2, d2>>

\* main: `if (!UNIPLEX_API_KEY) { ...; process.exit(1) }`
MainValidate ==
  /\ server.status = "starting"
  /\ server' = IF KeyMissing(env)
                 THEN [server EXCEPT !.status = "exited", !.exitCode = 1]
                 ELSE [server EXCEPT !.status = "validated"]
  /\ UNCHANGED <<env, api, registry, pc, d, served, pc2, d2>>

\* main after the check: new ApiClient, new Server, the two setRequestHandler
\* calls and server.connect
MainStart ==
  /\ server.status = "validated"
  /\ api' = ApiClient([baseUrl |-> ApiUrlOf(env), apiKey |-> env.UNIPLEX_API_KEY])
  /\ server' = [server EXCEPT !.status = "serving", !.registered = TRUE, !.connected = TRUE]
  /\ UNCHANGED <<env, registry, pc, d, served, pc2, d2>>

\* the call-tool handler up to the first suspension of
\* `await handleToolCall(api, name, args || {})`; `arguments` is undefined
\* when the request has none
CallToolRequest(name, arguments) ==
  /\ server.status = "serving" /\ server.registered /\ server.connected
  /\ pc \in {"idle", "replied"}
  /\ served < MaxDispatches
  /\ LET args == IF arguments = undefined THEN <<>> ELSE arguments
         handler == Lookup(name)
         start == [NoDispatch EXCEPT !.name = name, !.args = args]
     IN CASE handler = "undefined" ->
               /\ d' = [start EXCEPT !.outcome = Error("Unknown tool: " \o name)]
               /\ pc' = "settled"
          [] handler = "handler" ->
               /\ d' = [start EXCEPT !.calls = IssuedCalls(name, api, args)]
               /\ pc' = "awaiting"
          [] OTHER ->
               /\ d' = [start EXCEPT !.outcome = CallInherited(name, api, args)]
               /\ pc' = "settled"
  /\ server' = [server EXCEPT !.arguments = arguments, !.reply = NoReply]
  /\ UNCHANGED <<env, api, registry, served, pc2, d2>>

CallToolResult_NoFlag(outcome) ==
  IF outcome.kind = "result"
    THEN [how |-> "returned", isError |-> "absent", text |-> "",
          json |-> JSONstringify(outcome.value)]
    ELSE [how |-> "returned", isError |-> "absent", text |-> "Error: " \o outcome.message,
          json |-> undefined]

\* what the call-tool handler returns: the try branch holds the JSON text of
\* the result (`json` is the value that text denotes), the catch branch the
\* text "Error: <message>" and isError: true.  Every failure of this layer
\* is an Error instance, so the message is error.message.
CallToolResult(outcome) ==
  IF outcome.kind = "result"
    THEN [how |-> "returned", isError |-> "absent", text |-> "",
          json |-> JSONstringify(outcome.value)]
    ELSE [how |-> "returned", isError |-> "true", text |-> "Error: " \o outcome.message,
          json |-> undefined]

\* handleToolCall has returned or thrown: the handler returns its reply
CallToolReply ==
  /\ pc = "settled"
  /\ server.status = "serving"
  /\ server' = [server EXCEPT !.reply = CallToolResult(d.outcome)]
  /\ pc' = "replied"
  /\ served' = served + 1
  /\ UNCHANGED <<env, api, registry, d, pc2, d2>>

\* the names the requests of the served model carry
ServerNames == {"get_gate", "update_gate", "nonexistent_tool", "constructor", "valueOf"}

\* the responses of the served model: those of SomeResponses, a failure with
\* a message and a success whose body does not parse
ServerResponses ==
  SomeResponses \cup
    {[status |-> 401, statusText |-> StatusText(401),
      body |-> JsonBody(Obj("message" :> Str("Invalid API key")))],
     [status |-> 200, statusText |-> StatusText(200), body |-> NotJson]}

NextServer ==
  \/ MainValidate
  \/ MainStart
  \/ \E name \in ServerNames :
       \E arguments \in {undefined} \cup ArgRecords(name) : CallToolRequest(name, arguments)
  \/ \E response \in ServerResponses : FetchResolves(response)
  \/ FetchRejects
  \/ CallToolReply

SpecServer == InitServer /\ [][NextServer]_vars

---------------------------------------------------------------------------
(* The documented contract of the operations: method and path template, as
   the test suite names them ("get_gate - GET /api/gates/:id") *)

ParamOf ==
  [x \in {"{gate_id}", "{passport_id}", "{attestation_id}", "{settlement_id}", "{key_id}",
          "{version}"} |->
     CASE x = "{gate_id}" -> "gate_id"
       [] x = "{passport_id}" -> "passport_id"
       [] x = "{attestation_id}" -> "attestation_id"
       [] x = "{settlement_id}" -> "settlement_id"
       [] x = "{key_id}" -> "key_id"
       [] OTHER -> "version"]

Route(m, p) == [method |-> m, path |-> p]

Contract(name) ==
  CASE name = "list_gates" -> Route("GET", <<"api", "gates">>)
    [] name = "get_gate" -> Route("GET", <<"api", "gates", "{gate_id}">>)
    [] name = "create_gate" -> Route("POST", <<"api", "gates">>)
    [] name = "update_gate" -> Route("PATCH", <<"api", "gates", "{gate_id}">>)
    [] name = "delete_gate" -> Route("DELETE", <<"api", "gates", "{gate_id}">>)
    [] name = "list_passports" -> Route("GET", <<"api", "gates", "{gate_id}", "passports">>)
    [] name = "get_passport" ->
         Route("GET", <<"api", "gates", "{gate_id}", "passports", "{passport_id}">>)
    [] name = "issue_passport" -> Route("POST", <<"api", "gates", "{gate_id}", "passports">>)
    [] name = "revoke_passport" ->
         Route("DELETE", <<"api", "gates", "{gate_id}", "passports", "{passport_id}">>)
    [] name = "reissue_passport" ->
         Route("POST", <<"api", "passports", "{passport_id}", "reissue">>)
    [] name = "list_attestations" ->
         Route("GET", <<"api", "gates", "{gate_id}", "attestations">>)
    [] name = "record_attestation" ->
         Route("POST", <<"api", "gates", "{gate_id}", "attestations">>)
    [] name = "get_catalog" -> Route("GET", <<"api", "gates", "{gate_id}", "catalog">>)
    [] name = "create_catalog" -> Route("POST", <<"api", "gates", "{gate_id}", "catalog">>)
    [] name = "publish_catalog" ->
         Route("POST", <<"api", "gates", "{gate_id}", "catalog", "publish">>)
    [] name = "list_catalog_versions" ->
         Route("GET", <<"api", "gates", "{gate_id}", "catalog", "versions">>)
    [] name = "get_catalog_version" ->
         Route("GET", <<"api", "gates", "{gate_id}", "catalog", "{version}">>)
    [] name = "get_catalog_impact" ->
         Route("GET", <<"api", "gates", "{gate_id}", "catalog", "impact">>)
    [] name = "check_gate" -> Route("POST", <<"api", "gates", "{gate_id}", "check">>)
    [] name = "authorize_dry_run" -> Route("POST", <<"api", "authorize", "dry-run">>)
    [] name = "get_constraints" ->
         Route("GET", <<"api", "passports", "{passport_id}", "constraints">>)
    [] name = "set_constraints" ->
         Route("PUT", <<"api", "passports", "{passport_id}", "constraints">>)
    [] name = "list_constraint_types" -> Route("GET", <<"api", "constraints", "types">>)
    [] name = "list_constraint_templates" -> Route("GET", <<"api", "constraint-templates">>)
    [] name = "apply_constraint_template" ->
         Route("POST", <<"api", "passports", "{passport_id}", "constraints">>)
    [] name = "create_constraint_template" -> Route("POST", <<"api", "constraint-templates">>)
    [] name = "enforce_action" -> Route("POST", <<"api", "enforce">>)
    [] name = "list_enforcement_attestations" ->
         Route("GET", <<"api", "passports", "{passport_id}", "enforcement">>)
    [] name = "get_enforcement_attestation" ->
         Route("GET", <<"api", "enforcement", "{attestation_id}">>)
    [] name = "verify_enforcement_attestation" ->
         Route("POST", <<"api", "enforcement", "{attestation_id}", "verify">>)
    [] name = "get_anonymous_policy" ->
         Route("GET", <<"api", "gates", "{gate_id}", "anonymous-policy">>)
    [] name = "set_anonymous_policy" ->
         Route("PUT", <<"api", "gates", "{gate_id}", "anonymous-policy">>)
    [] name = "get_anonymous_log" ->
         Route("GET", <<"api", "gates", "{gate_id}", "anonymous-log">>)
    [] name = "get_cumulative_state" ->
         Route("GET", <<"api", "passports", "{passport_id}", "state">>)
    [] name = "reset_cumulative_state" ->
         Route("POST", <<"api", "passports", "{passport_id}", "state", "reset">>)
    [] name = "discover_services" -> Route("GET", <<"api", "discover">>)
    [] name = "issue_consumption_attestation" -> Route("POST", <<"api", "consume">>)
    [] name = "generate_settlement" -> Route("POST", <<"api", "billing">>)
    [] name = "list_settlements" -> Route("GET", <<"api", "billing">>)
    [] name = "get_settlement" -> Route("GET", <<"api", "billing", "{settlement_id}">>)
    [] name = "update_settlement_status" ->
         Route("POST", <<"api", "billing", "{settlement_id}", "status">>)
    [] name = "get_sla_compliance" -> Route("GET", <<"api", "gates", "{gate_id}", "sla">>)
    [] name = "list_api_keys" -> Route("GET", <<"api", "users", "api-keys">>)
    [] name = "create_api_key" -> Route("POST", <<"api", "users", "api-keys">>)
    [] name = "revoke_api_key" -> Route("DELETE", <<"api", "users", "api-keys", "{key_id}">>)

\* the arguments the contract puts in the path
PathArgs(name) ==
  LET segs == Contract(name).path
  IN {ParamOf[segs[i]] : i \in {j \in 1..Len(segs) : segs[j] \in DOMAIN ParamOf}}

\* the contract's path with the identifiers of `args` put in literally
RECURSIVE FillPath(_, _)
FillPath(segs, args) ==
  IF segs = <<>> THEN ""
  ELSE "/" \o (IF Head(segs) \in DOMAIN ParamOf THEN args[ParamOf[Head(segs)]].s ELSE Head(segs))
           \o FillPath(Tail(segs), args)

---------------------------------------------------------------------------
(* Two dispatches side by side, over every operation and over identifiers
   that spell the fixed segments of other routes *)

\* identifier values without "/", "?" or "#"
IdentifierValues == {Str("id_1"), Str("versions"), Str("impact")}

\* catalog versions
VersionValues == {Num(0), Num(2)}

\* the argument records that supply exactly the identifiers of the path
PathRecords(name) ==
  {r \in [PathArgs(name) -> IdentifierValues \cup VersionValues] :
     \A k \in PathArgs(name) : (r[k] \in VersionValues) <=> (k = "version")}

NextPaths ==
  \/ \E name \in allHandlers : \E args \in PathRecords(name) : HandleToolCall(name, args)
  \/ \E name \in allHandlers : \E args \in PathRecords(name) : HandleToolCall2(name, args)

SpecPaths == Init /\ [][NextPaths]_vars

---------------------------------------------------------------------------
(* What the claims observe *)

\* a dispatch is in progress or has settled and has not yet been returned
Dispatched == pc \in {"awaiting", "settled"}

Registered == Dispatched /\ d.name \in allHandlers

\* the network call of the dispatch
TheCall == d.calls[1]

\* the response has arrived
Responded == pc = "settled" /\ d.response # NoResponse

BodyKeys(call) == IF call.hasBody /\ call.body.t = "object" THEN DOMAIN call.body.o ELSE {}

QueryKeys(call) ==
  {call.query[i][1] : i \in 1..Len(call.query)}
    \cup {call.pathQuery[i][1] : i \in 1..Len(call.pathQuery)}

---------------------------------------------------------------------------
(* C1: dispatching a name that is not a registered operation name fails with
   the error "Unknown tool: <name>", before any handler runs and with no
   network call.  Fails on the code: a name that Object.prototype defines
   ("constructor", "toString", ...) is found by the property read. *)
C1_UnknownToolFails ==
  (pc = "settled" /\ d.name \notin allHandlers)
    => (d.outcome = Error("Unknown tool: " \o d.name) /\ d.calls = <<>>)

(* C2: every dispatch of a registered operation issues exactly one network
   call, whatever the outcome; after a non-2xx response or a rejected call the
   error is returned with still one call issued, and a dispatch never has more
   than one. *)
C2_ExactlyOneCall ==
  /\ Len(d.calls) <= 1
  /\ Registered => Len(d.calls) = 1
  /\ (pc = "settled" /\ d.name \in allHandlers /\ d.outcome.kind = "error")
       => (Len(d.calls) = 1 /\ d.outcome.message # "")

C2_Witness ==
  /\ pc = "settled" /\ d.name \in allHandlers
  /\ d.response.status = 500 /\ d.outcome.kind = "error" /\ Len(d.calls) = 1

(* C3: for every registered operation dispatched with its path identifiers
   supplied, the method of the network call is the contract's method and its
   path is the contract's path with each identifier put in literally
   (followed, for list_attestations, by the query the handler builds). *)
C3_MethodAndPath ==
  (Registered /\ PathArgs(d.name) \subseteq DOMAIN d.args) =>
     /\ TheCall.method = Contract(d.name).method
     /\ TheCall.path = FillPath(Contract(d.name).path, d.args)
                         \o (IF TheCall.pathQuery = <<>> THEN ""
                             ELSE "?" \o SearchParamsToString(TheCall.pathQuery))
     /\ (d.name = "update_gate" => TheCall.method = "PATCH" /\ TheCall.path = "/api/gates/gate_1")
     /\ (d.name = "reissue_passport" => TheCall.path = "/api/passports/p1/reissue")
     /\ (d.name = "revoke_api_key" =>
           TheCall.method = "DELETE" /\ TheCall.url = "https://uniplex.ai/api/users/api-keys/x")

C3_Witness ==
  /\ Registered /\ d.name = "set_constraints" /\ "passport_id" \in DOMAIN d.args
  /\ TheCall.method = "PUT" /\ TheCall.path = "/api/passports/p1/constraints"

(* C4 as stated: an argument interpolated into the path never appears as a key
   of the body or of the query of the same request.  Fails on the code:
   set_constraints sends the constraints value itself as the body, and that
   value may hold a passport_id key. *)
C4_Original ==
  Registered =>
    \A k \in PathArgs(d.name) : k \notin BodyKeys(TheCall) /\ k \notin QueryKeys(TheCall)

(* C4 amended: an argument interpolated into the path never appears as a key
   of the query, and never as a key of the body except for set_constraints,
   whose body is the caller's constraints value itself: there passport_id is a
   key of the body exactly when the constraints value is an object holding
   that key. *)
C4_PathArgsNotInPayload ==
  Registered =>
    \A k \in PathArgs(d.name) :
       /\ k \notin QueryKeys(TheCall)
       /\ d.name # "set_constraints" => k \notin BodyKeys(TheCall)
       /\ d.name = "set_constraints" =>
            (k \in BodyKeys(TheCall) <=> k \in DOMAIN Prop(d.args, "constraints").o)

C4_Witness ==
  /\ Registered /\ d.name = "issue_passport"
  /\ {"gate_id", "agent_id", "note"} \subseteq DOMAIN d.args
  /\ BodyKeys(TheCall) = DOMAIN d.args \ {"gate_id"}

\* the name a caller-facing field has on the wire
WireName(name, k) ==
  CASE name = "list_settlements" /\ k = "from_date" -> "from"
    [] name = "list_settlements" /\ k = "to_date" -> "to"
    [] OTHER -> k

\* the optional fields the caller left out
Omitted == Optional(d.name) \ DOMAIN d.args

(* C5 as stated: an optional field the caller omits never appears as a key of
   the produced body or query.  Fails on the code: quantity of
   issue_consumption_attestation is optional and is sent as 1 when omitted. *)
C5_Original ==
  Registered =>
    \A k \in Omitted :
       WireName(d.name, k) \notin BodyKeys(TheCall) \cup QueryKeys(TheCall)

(* C5 amended: an optional field the caller omits never appears as a key of
   the body or query put on the wire, except quantity of
   issue_consumption_attestation, which is then sent with the default 1;
   reissue_passport, publish_catalog and reset_cumulative_state called with
   only their identifier send the body {}, check_gate with only gate_id and
   action sends exactly {action}, create_api_key with only name exactly
   {name}. *)
C5_OmittedOptionalAbsent ==
  Registered =>
    /\ \A k \in Omitted :
         \/ WireName(d.name, k) \notin BodyKeys(TheCall) \cup QueryKeys(TheCall)
         \/ /\ d.name = "issue_consumption_attestation" /\ k = "quantity"
            /\ TheCall.body.o["quantity"] = Num(1)
    /\ (d.name = "reissue_passport" /\ DOMAIN d.args = {"passport_id"})
         => (TheCall.hasBody /\ TheCall.body = EmptyObject)
    /\ (d.name \in {"publish_catalog"} /\ DOMAIN d.args = {"gate_id"})
         => (TheCall.hasBody /\ TheCall.body = EmptyObject)
    /\ (d.name = "reset_cumulative_state" /\ DOMAIN d.args = {"passport_id"})
         => (TheCall.hasBody /\ TheCall.body = EmptyObject)
    /\ (d.name = "check_gate" /\ DOMAIN d.args = {"gate_id", "action"})
         => TheCall.body = Obj("action" :> d.args["action"])
    /\ (d.name = "create_api_key" /\ DOMAIN d.args = {"name"})
         => TheCall.body = Obj("name" :> d.args["name"])

C5_Witness ==
  /\ Registered /\ d.name = "create_gate"
  /\ DOMAIN d.args = {"name", "gate_id", "profile"}
  /\ BodyKeys(TheCall) = {"name", "gate_id", "profile"}

(* C6: issue_consumption_attestation sends quantity 1 when the caller omits
   quantity and the supplied number, 0 included, when the caller supplies
   one. *)
C6_QuantityDefault ==
  (Registered /\ d.name = "issue_consumption_attestation") =>
     /\ "quantity" \in BodyKeys(TheCall)
     /\ "quantity" \notin DOMAIN d.args => TheCall.body.o["quantity"].s = "1"
     /\ "quantity" \in DOMAIN d.args => TheCall.body.o["quantity"] = d.args["quantity"]

C6_Witness ==
  /\ Registered /\ d.name = "issue_consumption_attestation"
  /\ "quantity" \in DOMAIN d.args /\ d.args["quantity"].s = "0"
  /\ TheCall.body.o["quantity"].s = "0"

\* the text sent for `key` in the query, or "(none)"
QueryText(call, key) ==
  IF \E i \in 1..Len(call.query) : call.query[i][1] = key
    THEN call.query[CHOOSE i \in 1..Len(call.query) : call.query[i][1] = key][2]
    ELSE "(none)"

(* C7: list_settlements sends from_date and to_date as the query parameters
   "from" and "to"; "from_date" and "to_date" are never keys of the query of
   any request. *)
C7_FromToRenamed ==
  Registered =>
    /\ "from_date" \notin QueryKeys(TheCall) /\ "to_date" \notin QueryKeys(TheCall)
    /\ d.name = "list_settlements" =>
         /\ "from_date" \in DOMAIN d.args <=> "from" \in QueryKeys(TheCall)
         /\ "to_date" \in DOMAIN d.args <=> "to" \in QueryKeys(TheCall)
         /\ "from_date" \in DOMAIN d.args => QueryText(TheCall, "from") = d.args["from_date"].s
         /\ "to_date" \in DOMAIN d.args => QueryText(TheCall, "to") = d.args["to_date"].s
         /\ DOMAIN d.args = {"from_date", "to_date"}
              => TheCall.url = "https://uniplex.ai/api/billing?from=x&to=x"

C7_Witness ==
  /\ Registered /\ d.name = "list_settlements"
  /\ {"from_date", "to_date", "status"} \subseteq DOMAIN d.args
  /\ {"from", "to"} \subseteq QueryKeys(TheCall)

\* the response is a non-2xx one whose body is a JSON object
FailedWithJsonObject ==
  Responded /\ ~Ok(d.response) /\ d.response.body.parses /\ d.response.body.json.t = "object"

\* a field of the JSON object of the response that holds a non-empty text
NonEmptyField(k) ==
  /\ k \in DOMAIN d.response.body.json.o
  /\ d.response.body.json.o[k].s # ""

(* C8: after a non-2xx response whose JSON body has a non-empty "message", the
   dispatch fails with that text as the error message; when "message" is
   missing or empty and "error" is non-empty, with the text of "error". *)
C8_MessageFromBody ==
  FailedWithJsonObject =>
    /\ d.outcome.kind = "error"
    /\ NonEmptyField("message") => d.outcome.message = d.response.body.json.o["message"].s
    /\ (~NonEmptyField("message") /\ NonEmptyField("error"))
         => d.outcome.message = d.response.body.json.o["error"].s

C8_Witness ==
  /\ FailedWithJsonObject /\ d.response.status = 401
  /\ NonEmptyField("message") /\ NonEmptyField("error")
  /\ d.outcome.message = "Gate not found"

\* the generic fallback made of the status code and the status text
GenericFallback(response) ==
  CASE response.status = 401 -> "API error: 401 Unauthorized"
    [] response.status = 500 -> "API error: 500 Error"
    [] OTHER -> "API error: " \o NatToStr(response.status) \o " " \o response.statusText

(* C9: after a non-2xx response from which no message can be taken (a JSON
   body without a message-like field, or a body that is not JSON), the error
   message is the generic fallback made of the status code and the status
   text.  Fails on the code: for a JSON body without a message-like field the
   message is "API error: <status>", without the status text. *)
C9_FallbackHasStatusText ==
  (Responded /\ ~Ok(d.response)
     /\ (FailedWithJsonObject => ~NonEmptyField("message") /\ ~NonEmptyField("error")))
    => d.outcome = Error(GenericFallback(d.response))

(* C10: after a non-2xx response whose body is not valid JSON the dispatch
   fails with "API error: <status> <statusText>"; the parse exception is not
   what the caller receives. *)
C10_MalformedErrorBody ==
  (Responded /\ ~Ok(d.response) /\ ~d.response.body.parses) =>
     /\ d.outcome = Error(GenericFallback(d.response))
     /\ d.outcome.message # SyntaxErrorMessage

C10_Witness ==
  /\ Responded /\ d.response.status = 500 /\ ~d.response.body.parses
  /\ d.outcome.message = "API error: 500 Error"

\* the names the catalog advertises in the current state
Advertised == {registry.tools[i] : i \in 1..Len(registry.tools)}

(* C11: every operation name in the advertised catalog has a handler in the
   dispatch table, and a dispatch of an advertised name never ends with the
   "Unknown tool" error. *)
C11_AdvertisedHaveHandlers ==
  /\ \A n \in Advertised : Lookup(n) = "handler"
  /\ (pc = "settled" /\ d.name \in Advertised)
       => d.outcome # Error("Unknown tool: " \o d.name)
  /\ (Dispatched /\ d.name \in Advertised) => Len(d.calls) = 1

C11_Witness ==
  /\ pc = "settled" /\ d.name = "reissue_passport" /\ d.name \in Advertised
  /\ d.outcome.kind = "result"

(* C12: the advertised catalog holds exactly 45 operation descriptors and
   their names are pairwise distinct. *)
C12_FortyFiveDistinct ==
  /\ Len(registry.tools) = 45
  /\ Cardinality(Advertised) = Len(registry.tools)

C12_Witness ==
  /\ served = 1 /\ pc = "idle"
  /\ registry.tools[1] = "list_gates" /\ registry.tools[45] = "revoke_api_key"

(* C13: every network call of a dispatch carries the header Authorization
   with the value "Bearer " followed by the configured API key, and the
   header Content-Type with the value application/json, whatever the method
   and whether or not the call has a body. *)
C13_AuthAndContentType ==
  Registered =>
    \A i \in 1..Len(d.calls) :
       /\ d.calls[i].headers.Authorization = "Bearer " \o env.UNIPLEX_API_KEY
       /\ d.calls[i].headers.ContentType = "application/json"
       /\ d.calls[i].method \in {"GET", "POST", "PATCH", "PUT", "DELETE"}

C13_Witness ==
  /\ Registered /\ d.name = "delete_gate"
  /\ TheCall.method = "DELETE" /\ ~TheCall.hasBody
  /\ TheCall.headers.Authorization = "Bearer uni_test_xxx"
  /\ TheCall.headers.ContentType = "application/json"

(* C14 as stated: for every response with a 2xx status the dispatch
   succeeds, with an empty object for 204 and the parsed JSON body for every
   other 2xx status.  Fails on the code: response.json() rejects when the
   body of a 200 or 201 response is not valid JSON, and the dispatch fails. *)
C14_Original ==
  (Responded /\ Ok(d.response)) =>
     d.outcome = (IF d.response.status = 204 THEN Result(EmptyObject)
                  ELSE Result(d.response.body.json))

(* C14: for a response with a 2xx status, status 204 yields an empty object
   whatever the body holds; every other 2xx status yields the parsed JSON
   body unchanged when the body is valid JSON, and fails with the parse
   error when it is not. *)
C14_SuccessOnParsable2xx ==
  (Responded /\ Ok(d.response)) =>
     /\ d.response.status = 204 => d.outcome = Result(EmptyObject)
     /\ (d.response.status # 204 /\ d.response.body.parses) =>
           d.outcome = Result(d.response.body.json)
     /\ (d.response.status # 204 /\ ~d.response.body.parses) =>
           d.outcome = Error(SyntaxErrorMessage)

C14_Witness ==
  /\ Responded /\ d.response.status = 201
  /\ d.outcome = Result(Obj("id" :> Str("gate_1")))

(* C16: verify_enforcement_attestation is always sent with POST;
   update_settlement_status is always sent with POST and its body holds the
   status argument and nothing else; set_anonymous_policy is always sent
   with PUT. *)
C16_FixedMethods ==
  Registered =>
    /\ d.name = "verify_enforcement_attestation" => TheCall.method = "POST"
    /\ d.name = "set_anonymous_policy" => TheCall.method = "PUT"
    /\ d.name = "update_settlement_status" =>
          /\ TheCall.method = "POST"
          /\ TheCall.hasBody
          /\ TheCall.body = Obj([k \in {"status"} \cap DOMAIN d.args |-> d.args[k]])

C16_Witness ==
  /\ Registered /\ d.name = "update_settlement_status"
  /\ DOMAIN d.args = {"settlement_id", "status"}
  /\ TheCall.method = "POST" /\ TheCall.body = Obj("status" :> Str("x"))

(* C17: for the pass-through writes the body is the argument record minus
   the path identifier: every other supplied field, one no schema names and
   nested values included, is in the body with its value, and the body has
   no key the arguments do not have. *)
C17_PassThroughBody ==
  (Registered /\ d.name \in PassThrough) =>
     /\ TheCall.hasBody
     /\ TheCall.body = Obj([k \in DOMAIN d.args \ PathArgs(d.name) |-> d.args[k]])

C17_Witness ==
  /\ Registered /\ d.name = "issue_passport"
  /\ {"gate_id", "metadata", "note"} \subseteq DOMAIN d.args
  /\ "gate_id" \notin BodyKeys(TheCall)
  /\ TheCall.body.o["note"] = Str("x")
  /\ TheCall.body.o["metadata"] = Obj("k" :> Str("v"))

(* C19: in every reachable state, after successful, failing and unknown
   dispatches alike, the dispatch table, the advertised catalogue, the base
   URL and the credential are what they were when the server started. *)
C19_ConfigurationUnchanged ==
  /\ registry = [tools |-> allTools, handlers |-> allHandlers]
  /\ env = [UNIPLEX_API_URL |-> BaseUrlConfig, UNIPLEX_API_KEY |-> ApiKeyConfig]
  /\ api = [baseUrl |-> "https://uniplex.ai", apiKey |-> "uni_test_xxx"]

C19_Witness ==
  /\ served = 1 /\ pc = "settled" /\ d.name = "nonexistent_tool"
  /\ registry.handlers = allHandlers /\ api.apiKey = ApiKeyConfig

\* the base URL a request starts with, for each configured UNIPLEX_API_URL
ExpectedBase ==
  CASE env.UNIPLEX_API_URL = "https://uniplex.ai" -> "https://uniplex.ai"
    [] env.UNIPLEX_API_URL = "https://uniplex.ai/" -> "https://uniplex.ai"
    [] env.UNIPLEX_API_URL = "http://localhost:3000/" -> "http://localhost:3000"
    [] env.UNIPLEX_API_URL = "http://localhost:3000//" -> "http://localhost:3000/"

(* C15: the URL of the network call is the configured base URL without its
   trailing slash, then the path, then "?" and the query string exactly when
   some query value handed to the transport is defined; a key whose value is
   undefined is not in the query, and a key whose value is defined is in it
   once, with the text of its value. *)
C15_UrlBuilt ==
  Registered =>
    LET c == TheCall
        n == Len(c.params.e)
        defined == {i \in 1..n : c.params.e[i][2] # undefined}
    IN /\ c.url = ExpectedBase \o c.path
                     \o (IF defined = {} THEN "" ELSE "?" \o SearchParamsToString(c.query))
       /\ Len(c.query) = Cardinality(defined)
       /\ \A i \in defined :
             \E j \in 1..Len(c.query) :
                c.query[j] = <<c.params.e[i][1], JsString(c.params.e[i][2])>>
       /\ \A i \in (1..n) \ defined :
             \A j \in 1..Len(c.query) : c.query[j][1] # c.params.e[i][1]
       /\ (d.name = "list_constraint_types" /\ env.UNIPLEX_API_URL = "http://localhost:3000/") =>
             c.url = (IF "category" \notin DOMAIN d.args
                        THEN "http://localhost:3000/api/constraints/types"
                      ELSE IF d.args["category"] = Str("a b")
                        THEN "http://localhost:3000/api/constraints/types?category=a+b"
                      ELSE "http://localhost:3000/api/constraints/types?category=rate")

C15_Witness ==
  /\ Registered /\ d.name = "list_enforcement_attestations"
  /\ env.UNIPLEX_API_URL = "http://localhost:3000/"
  /\ DOMAIN d.args = {"passport_id", "limit"} /\ d.args["limit"] = Num(0)
  /\ TheCall.url = "http://localhost:3000/api/passports/p1/enforcement?limit=0"

\* what one invocation holds, given only its own name, arguments and response
Solo(x) ==
  /\ x.calls = (IF Lookup(x.name) = "handler"
                 THEN <<CallHandler(x.name, api, x.args)>> ELSE <<>>)
  /\ x.response # NoResponse => x.outcome = requestResult(x.response)

(* C18: while two dispatches overlap, a step of one leaves the request, the
   response and the outcome of the other as they were, and what each holds
   is determined by its own name, arguments and response alone. *)
C18_OverlapIndependent ==
  [][/\ (d' # d \/ pc' # pc) => (d2' = d2 /\ pc2' = pc2)
     /\ (d2' # d2 \/ pc2' # pc2) => (d' = d /\ pc' = pc)
     /\ Solo(d') /\ Solo(d2')]_vars

C18_Witness ==
  /\ pc = "settled" /\ pc2 = "settled"
  /\ d.name = "get_gate" /\ d.response.status = 200
  /\ d.outcome = Result(Obj("id" :> Str("gate_1")))
  /\ d2.name = "update_gate" /\ d2.response.status = 500
  /\ d2.outcome = Error("API error: 500 Error")

(* C20: two dispatches of the same name with equal arguments emit the same
   request (or fail the same way before emitting one), however many
   dispatches have completed before either of them. *)
C20_Deterministic ==
  (pc # "idle" /\ pc2 # "idle" /\ d.name = d2.name /\ d.args = d2.args) =>
     /\ d.calls = d2.calls
     /\ (d.calls = <<>> /\ pc = "settled" /\ pc2 = "settled") => d.outcome = d2.outcome

C20_Witness ==
  /\ served >= 1 /\ pc = "awaiting" /\ pc2 = "awaiting"
  /\ d.name = "update_gate" /\ DOMAIN d.args = {"gate_id", "name", "note"}
  /\ d2.name = d.name /\ d2.args = d.args
  /\ d.calls = d2.calls /\ Len(d.calls) = 1

\* the value sent under the wire key `k` is the one the caller gave
FromArgs(k, v) == \E a \in DOMAIN d.args : WireName(d.name, a) = k /\ d.args[a] = v

\* the text sent under the query key `k` is the text of a value the caller gave
TextFromArgs(k, text) ==
  \E a \in DOMAIN d.args : WireName(d.name, a) = k /\ JsString(d.args[a]) = text

(* C21: in the body and the query of every request, each key carries a value
   the caller supplied (set_constraints sends the supplied constraints value
   as the whole body); the one exception is quantity of
   issue_consumption_attestation, sent as 1 when the caller left it out. *)
C21_OnlyQuantityDefaulted ==
  Registered =>
    LET c == TheCall
        entries == {c.query[i] : i \in 1..Len(c.query)}
                     \cup {c.pathQuery[i] : i \in 1..Len(c.pathQuery)}
    IN /\ \A e \in entries : TextFromArgs(e[1], e[2])
       /\ (d.name = "set_constraints" /\ c.hasBody) => c.body = d.args["constraints"]
       /\ d.name # "set_constraints" =>
            \A k \in BodyKeys(c) :
               \/ FromArgs(k, c.body.o[k])
               \/ /\ d.name = "issue_consumption_attestation" /\ k = "quantity"
                  /\ "quantity" \notin DOMAIN d.args
                  /\ c.body.o[k] = Num(1)

C21_Witness ==
  /\ Registered /\ d.name = "issue_consumption_attestation"
  /\ DOMAIN d.args = {"passport_id", "gate_id", "action", "outcome"}
  /\ TheCall.body.o["quantity"] = Num(1)
  /\ \A k \in DOMAIN d.args : TheCall.body.o[k] = d.args[k]

(* C22: a request has a payload exactly when the handler passed a body to
   the transport, and the payload is then the JSON text of that body, the
   empty object and falsy values included.  Fails on the code: request()
   tests the body for truthiness, so a body of 0 or null is not sent. *)
C22_PayloadIffBodyGiven ==
  Registered =>
    /\ TheCall.hasBody <=> TheCall.bodyArg # undefined
    /\ TheCall.hasBody => TheCall.body = JSONstringify(TheCall.bodyArg)

\* the filters of list_attestations
AttestationFilters == {"passport_id", "agent_id", "permission", "since", "limit"}

(* C24: list_attestations puts in the query every filter the caller supplies
   with a defined value, limit 0 and empty strings included, under the same
   name and with the text of the value, and no other key; gate_id is only in
   the path.  Fails on the code: the handler tests each filter for
   truthiness, so limit 0 and "" are left out. *)
C24_FiltersForwarded ==
  (Registered /\ d.name = "list_attestations") =>
     LET q == TheCall.pathQuery
     IN /\ {q[i][1] : i \in 1..Len(q)} = AttestationFilters \cap DOMAIN d.args
        /\ \A i \in 1..Len(q) : q[i][2] = JsString(d.args[q[i][1]])
        /\ TheCall.query = <<>>

(* C25: create_gate called with only name, gate_id and profile sends a body
   whose keys are exactly name, gate_id and profile, with the supplied
   values: description and allow_self_issued are not in it. *)
C25_CreateGateMinimalBody ==
  (Registered /\ d.name = "create_gate" /\ DOMAIN d.args = {"name", "gate_id", "profile"}) =>
     /\ TheCall.hasBody
     /\ BodyKeys(TheCall) = {"name", "gate_id", "profile"}
     /\ \A k \in {"name", "gate_id", "profile"} : TheCall.body.o[k] = d.args[k]
     /\ \A k \in {"description", "allow_self_issued"} : k \notin DOMAIN TheCall.body.o

C25_Witness ==
  /\ Registered /\ d.name = "create_gate"
  /\ d.args = [name |-> Str("x"), gate_id |-> Str("gate_1"), profile |-> Str("x")]
  /\ TheCall.body = Obj([name |-> Str("x"), gate_id |-> Str("gate_1"), profile |-> Str("x")])

(* C26: set_constraints given an object as constraints sends that object
   itself as the body, not wrapped in a constraints key, by PUT to
   /api/passports/{passport_id}/constraints; passport_id is a key of the
   body only when the constraints object has that key. *)
C26_SetConstraintsBody ==
  (/\ Registered /\ d.name = "set_constraints"
   /\ "constraints" \in DOMAIN d.args /\ d.args["constraints"].t = "object") =>
     /\ TheCall.method = "PUT"
     /\ TheCall.path = "/api/passports/" \o JsString(Prop(d.args, "passport_id")) \o "/constraints"
     /\ "passport_id" \in DOMAIN d.args => TheCall.path = "/api/passports/p1/constraints"
     /\ TheCall.hasBody
     /\ TheCall.body = d.args["constraints"]
     /\ "constraints" \notin BodyKeys(TheCall)
     /\ "passport_id" \in BodyKeys(TheCall) <=> "passport_id" \in DOMAIN d.args["constraints"].o

C26_Witness ==
  /\ Registered /\ d.name = "set_constraints"
  /\ d.args = [passport_id |-> Str("p1"), constraints |-> Obj("max_calls" :> Num(5))]
  /\ TheCall.method = "PUT" /\ TheCall.body = Obj("max_calls" :> Num(5))

\* the contract's path with the text "undefined" for every identifier
RECURSIVE PathWithoutArgs(_)
PathWithoutArgs(segs) ==
  IF segs = <<>> THEN ""
  ELSE "/" \o (IF Head(segs) \in DOMAIN ParamOf THEN "undefined" ELSE Head(segs))
           \o PathWithoutArgs(Tail(segs))

(* C27: a registered operation dispatched with the empty argument record
   raises no error before its request: it issues exactly one network call,
   whose path has the text "undefined" in place of each identifier, and it
   fails only when the call is rejected or answered with a failure. *)
C27_NoLocalValidation ==
  (Registered /\ d.args = <<>>) =>
     /\ Len(d.calls) = 1
     /\ TheCall.method = Contract(d.name).method
     /\ TheCall.path = PathWithoutArgs(Contract(d.name).path)
     /\ pc = "awaiting" => d.outcome = NoOutcome
     /\ (pc = "settled" /\ d.response = NoResponse) => d.outcome = Error(FetchFailedMessage)
     /\ (pc = "settled" /\ d.response # NoResponse) => d.outcome = requestResult(d.response)

C27_Witness ==
  /\ pc = "settled" /\ d.name = "get_passport" /\ d.args = <<>>
  /\ TheCall.path = "/api/gates/undefined/passports/undefined"
  /\ d.response.status = 200 /\ d.outcome.kind = "result"

(* C28: the call-tool request handler always returns a reply: a dispatch
   that failed (unknown tool, API error, parse failure, rejected call) gives
   isError true and the text "Error: " followed by the message, a dispatch
   that succeeded gives no isError and the JSON text of the result; a
   request without arguments is dispatched with the empty record. *)
C28_ServerWrapsOutcome ==
  /\ pc = "replied" =>
       /\ server.reply.how = "returned"
       /\ d.outcome.kind = "error" =>
             /\ server.reply.isError = "true"
             /\ server.reply.text = "Error: " \o d.outcome.message
       /\ d.outcome.kind = "result" =>
             /\ server.reply.isError = "absent"
             /\ server.reply.json = JSONstringify(d.outcome.value)
       /\ d.outcome = Error("Unknown tool: nonexistent_tool") =>
             server.reply.text = "Error: Unknown tool: nonexistent_tool"
  /\ (pc \in {"awaiting", "settled", "replied"} /\ server.status = "serving") =>
       d.args = (IF server.arguments = undefined THEN <<>> ELSE server.arguments)

C28_Witness ==
  /\ pc = "replied" /\ d.name = "get_gate" /\ server.arguments = undefined
  /\ d.args = <<>> /\ d.response.status = 401
  /\ server.reply.isError = "true" /\ server.reply.text = "Error: Invalid API key"

(* C29: when UNIPLEX_API_KEY is unset or empty, main never gets past its
   check: it exits with status 1 with no ApiClient created, no request
   handler registered and the transport not connected, and no tool call is
   ever dispatched; a dispatch in progress always has a non-empty key. *)
C29_NoKeyNoService ==
  /\ KeyMissing(env) =>
       /\ server.status \in {"starting", "exited"}
       /\ server.status = "exited" => server.exitCode = 1
       /\ api = NoClient
       /\ ~server.registered /\ ~server.connected
       /\ pc = "idle" /\ d = NoDispatch /\ served = 0
  /\ (pc # "idle" \/ server.status = "serving") =>
       /\ ~KeyMissing(env)
       /\ api.apiKey = env.UNIPLEX_API_KEY
       /\ api.apiKey # ""

C29_Witness ==
  /\ server.status = "exited" /\ server.exitCode = 1
  /\ "UNIPLEX_API_KEY" \in DOMAIN env /\ env.UNIPLEX_API_KEY = ""
  /\ api = NoClient /\ ~server.connected

(* C23: a dispatch that has issued its network call completes, with a result
   or with an error, once the transport has resolved or rejected that call:
   between the call and the outcome there is no state of this layer in which
   the dispatch could stay. *)
C23_DispatchCompletes ==
  (pc = "awaiting") ~> (pc = "settled" /\ d.outcome.kind \in {"result", "error"})

C23_Witness ==
  /\ pc = "settled" /\ Registered /\ Len(d.calls) = 1
  /\ d.response.status = 204 /\ d.outcome = Result(EmptyObject)
  /\ served = 1

\* the network call of the second dispatch
TheCall2 == d2.calls[1]

(* C30: two dispatches of different operations never issue the same method
   on the same path, whatever identifiers they carry: get_constraints,
   set_constraints and apply_constraint_template with the same passport
   share their path and differ in method, as do list_settlements and
   generate_settlement, and get_catalog and create_catalog of the same gate;
   the path of get_catalog_version is never that of list_catalog_versions or
   get_catalog_impact. *)
C30_NoRouteCollision ==
  (pc = "awaiting" /\ pc2 = "awaiting" /\ d.name # d2.name) =>
     /\ <<TheCall.method, TheCall.path>> # <<TheCall2.method, TheCall2.path>>
     /\ ((\/ {d.name, d2.name} \subseteq
               {"get_constraints", "set_constraints", "apply_constraint_template"}
           \/ {d.name, d2.name} = {"list_settlements", "generate_settlement"}
           \/ {d.name, d2.name} = {"get_catalog", "create_catalog"})
          /\ d.args = d2.args) =>
            (TheCall.path = TheCall2.path /\ TheCall.method # TheCall2.method)
     /\ (d.name = "get_catalog_version"
          /\ d2.name \in {"list_catalog_versions", "get_catalog_impact"}) =>
            TheCall.path # TheCall2.path

C30_Witness ==
  /\ pc = "awaiting" /\ pc2 = "awaiting"
  /\ d.name = "set_constraints" /\ d2.name = "apply_constraint_template"
  /\ TheCall.path = "/api/passports/versions/constraints"
  /\ TheCall2.path = TheCall.path
  /\ TheCall.method = "PUT" /\ TheCall2.method = "POST"

====
